---- MODULE Spec2Model ----
(***************************************************************************)
(* Model of the irrigation controller of "Fase 4/main.cpp" (FarmTech       *)
(* Solutions): the periodic loop(), the six demonstration scenarios, the   *)
(* decision policy of analisarDadosEControlarBomba() and the CSV record.   *)
(*                                                                         *)
(* A float is modelled in fixed point, as an integer number of thousandths *)
(* (7.2 is 7200), with one extra value NaN that makes every comparison     *)
(* false, as IEEE-754 does.                                                *)
(***************************************************************************)
EXTENDS Integers, Sequences, FiniteSets, TLC

VARIABLES
    fosforo_presente,   \* bool, line 25
    potassio_presente,  \* bool, line 26
    valor_ph,           \* float, line 27
    umidade_solo,       \* float, line 28
    bomba_ativa,        \* bool, line 29
    ultima_leitura,     \* unsigned long, line 38
    contador_medicoes,  \* unsigned long, line 40
    cenario_atual,      \* int, line 41
    millis,             \* the millisecond clock read by millis()
    pino2,              \* level of GPIO 2 (PIN_RELE and PIN_LED are the same pin)
    pc,                 \* position of the single thread of control
    serial,             \* what was printed: scenario banners, analysis reports, CSV lines
    log_fisico,         \* last "Sensores fisicos" / DHT22 printout of lerSensores()
    memo                \* observer: one earlier (reading, decision) pair, or Nenhum

vars == <<fosforo_presente, potassio_presente, valor_ph, umidade_solo, bomba_ativa,
          ultima_leitura, contador_medicoes, cenario_atual, millis, pino2, pc,
          serial, log_fisico, memo>>

leitura_vars == <<fosforo_presente, potassio_presente, valor_ph, umidade_solo>>

-----------------------------------------------------------------------------
(* Bounds of the exploration *)

\* loop() starts a cycle only while fewer than MaxCiclos cycles have run.  The
\* two unsigned long counters (millis, contador_medicoes) therefore stay far
\* below 2^32, where unsigned arithmetic and integer arithmetic agree.
MaxCiclos == 13

-----------------------------------------------------------------------------
(* Number representation *)

\* thousandths per unit of a float
Escala == 1000

\* the float NaN (a value no reading in thousandths takes)
NaN == 0 - 999999999

\* float comparison a < b: false when either side is NaN
FLt(a, b) == a # NaN /\ b # NaN /\ a < b

\* float comparison a > b: false when either side is NaN
FGt(a, b) == a # NaN /\ b # NaN /\ a > b

LOW == "LOW"
HIGH == "HIGH"

-----------------------------------------------------------------------------
(* Control parameters, lines 32-39, floats in thousandths *)

LIMITE_UMIDADE_BAIXA == 30000
LIMITE_UMIDADE_ALTA == 70000
LIMITE_PH_BAIXO == 6000
LIMITE_PH_ALTO == 8000
INTERVALO_LEITURA == 3000

-----------------------------------------------------------------------------
(* Printing: Serial.print of an unsigned long, a bool flag and a float *)

Digito(d) == <<"0", "1", "2", "3", "4", "5", "6", "7", "8", "9">>[d + 1]

\* Serial.print(unsigned long): the decimal digits of n
RECURSIVE NatToStr(_)
NatToStr(n) == IF n < 10 THEN Digito(n) ELSE NatToStr(n \div 10) \o Digito(n % 10)

\* 10^d
RECURSIVE Pot10(_)
Pot10(d) == IF d = 0 THEN 1 ELSE 10 * Pot10(d - 1)

\* the first `digitos` decimals of the fraction resto/Escala, truncated
RECURSIVE Decimais(_, _)
Decimais(resto, digitos) ==
    IF digitos = 0 THEN ""
    ELSE Digito((resto * 10) \div Escala) \o Decimais((resto * 10) % Escala, digitos - 1)

\* Serial.print(float, digitos) and String(float, digitos): "nan" for NaN, a
\* leading "-" for a negative number, then the magnitude rounded half-up to
\* `digitos` decimals (0.5/10^digitos is added, the rest is truncated)
PrintFloat(x, digitos) ==
    IF x = NaN THEN "nan"
    ELSE LET mag == IF x < 0 THEN 0 - x ELSE x
             arred == mag + (Escala \div (2 * Pot10(digitos)))
         IN  (IF x < 0 THEN "-" ELSE "")
             \o NatToStr(arred \div Escala)
             \o (IF digitos > 0 THEN "." ELSE "")
             \o Decimais(arred % Escala, digitos)

\* cond ? "1" : "0"
Bit(b) == IF b THEN "1" ELSE "0"

\* Arduino map(x, in_min, in_max, out_min, out_max), long arithmetic
Map(x, in_min, in_max, out_min, out_max) ==
    ((x - in_min) * (out_max - out_min)) \div (in_max - in_min) + out_min

-----------------------------------------------------------------------------
(* The decision policy, lines 180-213.  A decision is the pair of locals    *)
(* deve_ativar_bomba and motivo_decisao.  motivo_decisao is modelled by the *)
(* code of its message:                                                     *)
(*   "Umidade baixa (..%)"                          MOISTURE_LOW            *)
(*   "Umidade alta (..%)"                           MOISTURE_HIGH           *)
(*   "Umidade normal (..%)"                         MOISTURE_NORMAL         *)
(*   "pH muito acido (..) - irrigacao bloqueada"    PH_TOO_ACIDIC           *)
(*   "pH muito alcalino (..) - irrigacao bloqueada" PH_TOO_ALKALINE         *)
(*   "SEM NUTRIENTES - Irrigacao forcada ..."       NO_NUTRIENTS_FORCE_IRRIGATION *)
(*   "Nutriente parcial - Irrigacao para ..."       PARTIAL_NUTRIENT_BALANCING    *)
(* together with the number the message embeds (texto).                     *)

Motivo(codigo, texto) == [codigo |-> codigo, texto |-> texto]

\* lines 180-181 with bomba_ativa in place of false: the pump keeps its state
DecisaoInicial_memoria == [deve_ativar_bomba |-> bomba_ativa, motivo_decisao |-> Motivo("", "")]

\* lines 180-181: bool deve_ativar_bomba = false; String motivo_decisao = ""
DecisaoInicial == [deve_ativar_bomba |-> FALSE, motivo_decisao |-> Motivo("", "")]

\* lines 184-192 with <= and >= in place of < and >
RegraUmidade_inclusiva(d, umidade) ==
    IF ~FGt(umidade, LIMITE_UMIDADE_BAIXA) /\ umidade # NaN
    THEN [deve_ativar_bomba |-> TRUE,
          motivo_decisao |-> Motivo("MOISTURE_LOW", PrintFloat(umidade, 1))]
    ELSE IF ~FLt(umidade, LIMITE_UMIDADE_ALTA) /\ umidade # NaN
    THEN [deve_ativar_bomba |-> FALSE,
          motivo_decisao |-> Motivo("MOISTURE_HIGH", PrintFloat(umidade, 1))]
    ELSE [d EXCEPT !.motivo_decisao = Motivo("MOISTURE_NORMAL", PrintFloat(umidade, 1))]

\* lines 184-192: the moisture baseline
RegraUmidade(d, umidade) ==
    IF FLt(umidade, LIMITE_UMIDADE_BAIXA)
    THEN [deve_ativar_bomba |-> TRUE,
          motivo_decisao |-> Motivo("MOISTURE_LOW", PrintFloat(umidade, 1))]
    ELSE IF FGt(umidade, LIMITE_UMIDADE_ALTA)
    THEN [deve_ativar_bomba |-> FALSE,
          motivo_decisao |-> Motivo("MOISTURE_HIGH", PrintFloat(umidade, 1))]
    ELSE [d EXCEPT !.motivo_decisao = Motivo("MOISTURE_NORMAL", PrintFloat(umidade, 1))]

\* lines 195-201 with <= and >= in place of < and >
RegraPH_inclusiva(d, ph) ==
    IF ~FGt(ph, LIMITE_PH_BAIXO) /\ ph # NaN
    THEN [deve_ativar_bomba |-> FALSE,
          motivo_decisao |-> Motivo("PH_TOO_ACIDIC", PrintFloat(ph, 1))]
    ELSE IF ~FLt(ph, LIMITE_PH_ALTO) /\ ph # NaN
    THEN [deve_ativar_bomba |-> FALSE,
          motivo_decisao |-> Motivo("PH_TOO_ALKALINE", PrintFloat(ph, 1))]
    ELSE d

\* lines 195-201 blocking only a pump that the moisture rule left off
RegraPH_fraca(d, ph) ==
    IF d.deve_ativar_bomba THEN d
    ELSE IF FLt(ph, LIMITE_PH_BAIXO)
    THEN [deve_ativar_bomba |-> FALSE,
          motivo_decisao |-> Motivo("PH_TOO_ACIDIC", PrintFloat(ph, 1))]
    ELSE IF FGt(ph, LIMITE_PH_ALTO)
    THEN [deve_ativar_bomba |-> FALSE,
          motivo_decisao |-> Motivo("PH_TOO_ALKALINE", PrintFloat(ph, 1))]
    ELSE d

\* lines 195-201: the pH block
RegraPH(d, ph) ==
    IF FLt(ph, LIMITE_PH_BAIXO)
    THEN [deve_ativar_bomba |-> FALSE,
          motivo_decisao |-> Motivo("PH_TOO_ACIDIC", PrintFloat(ph, 1))]
    ELSE IF FGt(ph, LIMITE_PH_ALTO)
    THEN [deve_ativar_bomba |-> FALSE,
          motivo_decisao |-> Motivo("PH_TOO_ALKALINE", PrintFloat(ph, 1))]
    ELSE d

\* lines 204-207 forcing irrigation only where the pH rule did not block it
RegraSemNutrientes_apos_ph(d, fosforo, potassio) ==
    IF ~fosforo /\ ~potassio
       /\ d.motivo_decisao.codigo \notin {"PH_TOO_ACIDIC", "PH_TOO_ALKALINE"}
    THEN [deve_ativar_bomba |-> TRUE,
          motivo_decisao |-> Motivo("NO_NUTRIENTS_FORCE_IRRIGATION", "")]
    ELSE d

\* lines 204-207: no nutrient at all forces irrigation
RegraSemNutrientes(d, fosforo, potassio) ==
    IF ~fosforo /\ ~potassio
    THEN [deve_ativar_bomba |-> TRUE,
          motivo_decisao |-> Motivo("NO_NUTRIENTS_FORCE_IRRIGATION", "")]
    ELSE d

\* lines 210-213 without the second disjunct of the condition
RegraNutrienteParcial_so_fosforo(d, fosforo, potassio) ==
    IF fosforo /\ ~potassio
    THEN [deve_ativar_bomba |-> TRUE,
          motivo_decisao |-> Motivo("PARTIAL_NUTRIENT_BALANCING", "")]
    ELSE d

\* lines 210-213: exactly one nutrient forces irrigation
RegraNutrienteParcial(d, fosforo, potassio) ==
    IF (fosforo /\ ~potassio) \/ (~fosforo /\ potassio)
    THEN [deve_ativar_bomba |-> TRUE,
          motivo_decisao |-> Motivo("PARTIAL_NUTRIENT_BALANCING", "")]
    ELSE d

\* lines 180-213: the four rules in the order of the code, each overriding the last
Decidir(fosforo, potassio, ph, umidade) ==
    RegraNutrienteParcial(
        RegraSemNutrientes(
            RegraPH(RegraUmidade(DecisaoInicial, umidade), ph),
            fosforo, potassio),
        fosforo, potassio)

\* bomba_ativa ? LOW : HIGH
NivelPino_invertido(b) == IF b THEN LOW ELSE HIGH

\* lines 217-218: bomba_ativa ? HIGH : LOW
NivelPino(b) == IF b THEN HIGH ELSE LOW

-----------------------------------------------------------------------------
(* Serial output *)

\* lines 221-235: the "=== ANALISE DOS SENSORES ===" report
Relatorio(fosforo, potassio, ph, umidade, bomba, motivo) ==
    [tipo |-> "ANALISE",
     fosforo |-> IF fosforo THEN "PRESENTE" ELSE "AUSENTE",
     potassio |-> IF potassio THEN "PRESENTE" ELSE "AUSENTE",
     ph |-> PrintFloat(ph, 2),
     umidade |-> PrintFloat(umidade, 1),
     bomba |-> IF bomba THEN "LIGADA" ELSE "DESLIGADA",
     motivo |-> motivo]

\* lines 240-250 with the scenario index printed in place of the counter
LinhaCSV_cenario(contador, fosforo, potassio, ph, umidade, bomba) ==
    NatToStr(cenario_atual + 1) \o "," \o Bit(fosforo) \o "," \o Bit(potassio) \o ","
    \o PrintFloat(ph, 2) \o "," \o PrintFloat(umidade, 1) \o "," \o Bit(bomba)

\* lines 240-250: contador,fosforo,potassio,ph(2),umidade(1),bomba
LinhaCSV(contador, fosforo, potassio, ph, umidade, bomba) ==
    NatToStr(contador) \o "," \o Bit(fosforo) \o "," \o Bit(potassio) \o ","
    \o PrintFloat(ph, 2) \o "," \o PrintFloat(umidade, 1) \o "," \o Bit(bomba)

-----------------------------------------------------------------------------
(* The demonstration scenarios, lines 100-148 *)

NUM_CENARIOS == 6

Cenario(c) ==
    CASE c = 0 -> [fosforo |-> FALSE, potassio |-> FALSE, umidade |-> 45000, ph |-> 7200]
      [] c = 1 -> [fosforo |-> TRUE,  potassio |-> FALSE, umidade |-> 25000, ph |-> 7000]
      [] c = 2 -> [fosforo |-> FALSE, potassio |-> TRUE,  umidade |-> 75000, ph |-> 6800]
      [] c = 3 -> [fosforo |-> TRUE,  potassio |-> TRUE,  umidade |-> 40000, ph |-> 5500]
      [] c = 4 -> [fosforo |-> TRUE,  potassio |-> TRUE,  umidade |-> 50000, ph |-> 8500]
      [] c = 5 -> [fosforo |-> TRUE,  potassio |-> TRUE,  umidade |-> 55000, ph |-> 7000]

\* (cenario_atual + 1) % 5
ProximoCenario_cinco(c) == (c + 1) % (NUM_CENARIOS - 1)

\* line 89: (cenario_atual + 1) % 6
ProximoCenario(c) == (c + 1) % NUM_CENARIOS

-----------------------------------------------------------------------------
(* Inputs of the environment *)

\* milliseconds that pass between two successive reads of millis() in loop()
PASSOS == {1000, 1999}

\* raw 12-bit ADC readings of analogRead()
LEITURAS_ADC == {0, 2048, 4095}

\* results of dht.readHumidity(): NaN when the read fails
LEITURAS_DHT == {NaN, 55300}

\* moisture and pH values of the readings the policy is evaluated on
UMIDADES == {NaN, 25000, 29999, 30000, 45000, 70000, 75000}
PHS == {NaN, 5500, 5999, 6000, 7200, 8000, 8500}

Nenhum == [tipo |-> "nenhum"]
SemLeitura == [ph_ldr |-> "", umidade_pot |-> "", dht |-> ""]

-----------------------------------------------------------------------------
(* The program *)

\* globals as initialised at lines 25-41; GPIO 2 is not driven before setup()
Init ==
    /\ fosforo_presente = FALSE
    /\ potassio_presente = FALSE
    /\ valor_ph = 0
    /\ umidade_solo = 0
    /\ bomba_ativa = FALSE
    /\ ultima_leitura = 0
    /\ contador_medicoes = 0
    /\ cenario_atual = 0
    /\ millis = 0
    /\ pino2 \in {LOW, HIGH}
    /\ pc = "setup"
    /\ serial = <<>>
    /\ log_fisico = SemLeitura
    /\ memo = Nenhum

\* lines 43-68: delay(1000), pump off, ultima_leitura = millis()
setup ==
    /\ pc = "setup"
    /\ millis' = millis + 1000
    /\ pino2' = LOW
    /\ bomba_ativa' = FALSE
    /\ ultima_leitura' = millis'
    /\ pc' = "loop"
    /\ UNCHANGED <<leitura_vars, contador_medicoes, cenario_atual, serial,
                   log_fisico, memo>>

\* lines 70-74: one iteration of loop() up to the call of simularCenario();
\* the clock has advanced by dt since the previous iteration
loop ==
    /\ pc = "loop"
    /\ \E dt \in PASSOS :
         LET tempo_atual == millis + dt
         IN  /\ millis' = tempo_atual
             /\ IF tempo_atual - ultima_leitura >= INTERVALO_LEITURA
                THEN /\ contador_medicoes < MaxCiclos
                     /\ ultima_leitura' = tempo_atual
                     /\ contador_medicoes' = contador_medicoes + 1
                     /\ pc' = "simularCenario"
                ELSE UNCHANGED <<ultima_leitura, contador_medicoes, pc>>
    /\ UNCHANGED <<leitura_vars, bomba_ativa, cenario_atual, pino2, serial,
                   log_fisico, memo>>

\* lines 95-149
simularCenario ==
    /\ pc = "simularCenario"
    /\ serial' = Append(serial, [tipo |-> "CENARIO", n |-> cenario_atual + 1])
    /\ fosforo_presente' = Cenario(cenario_atual).fosforo
    /\ potassio_presente' = Cenario(cenario_atual).potassio
    /\ umidade_solo' = Cenario(cenario_atual).umidade
    /\ valor_ph' = Cenario(cenario_atual).ph
    /\ pc' = "lerSensores"
    /\ UNCHANGED <<bomba_ativa, ultima_leitura, contador_medicoes, cenario_atual,
                   millis, pino2, log_fisico, memo>>

\* lines 151-177 with the physical readings stored into the reading variables
lerSensores_real ==
    /\ pc = "lerSensores"
    /\ \E leitura_ldr \in LEITURAS_ADC, leitura_umidade_pot \in LEITURAS_ADC,
          umidade_dht \in LEITURAS_DHT :
         LET ph_ldr == (Map(leitura_ldr, 0, 4095, 0, 1400) * Escala) \div 100
             umidade_pot == Map(leitura_umidade_pot, 0, 4095, 0, 100) * Escala
         IN  /\ log_fisico' =
                   [ph_ldr |-> PrintFloat(ph_ldr, 1),
                    umidade_pot |-> PrintFloat(umidade_pot, 1),
                    dht |-> IF umidade_dht # NaN THEN PrintFloat(umidade_dht, 1) ELSE ""]
             /\ valor_ph' = ph_ldr
             /\ umidade_solo' = IF umidade_dht # NaN THEN umidade_dht ELSE umidade_pot
    /\ pc' = "analisarDadosEControlarBomba"
    /\ UNCHANGED <<fosforo_presente, potassio_presente, bomba_ativa, ultima_leitura,
                   contador_medicoes, cenario_atual, millis, pino2, serial, memo>>

\* lines 151-177: the physical readings are only printed
lerSensores ==
    /\ pc = "lerSensores"
    /\ \E leitura_ldr \in LEITURAS_ADC, leitura_umidade_pot \in LEITURAS_ADC,
          umidade_dht \in LEITURAS_DHT :
         LET ph_ldr == (Map(leitura_ldr, 0, 4095, 0, 1400) * Escala) \div 100
             umidade_pot == Map(leitura_umidade_pot, 0, 4095, 0, 100) * Escala
         IN  log_fisico' =
                [ph_ldr |-> PrintFloat(ph_ldr, 1),
                 umidade_pot |-> PrintFloat(umidade_pot, 1),
                 dht |-> IF umidade_dht # NaN THEN PrintFloat(umidade_dht, 1) ELSE ""]
    /\ pc' = "analisarDadosEControlarBomba"
    /\ UNCHANGED <<leitura_vars, bomba_ativa, ultima_leitura, contador_medicoes,
                   cenario_atual, millis, pino2, serial, memo>>

\* lines 179-236
analisarDadosEControlarBomba ==
    /\ pc = "analisarDadosEControlarBomba"
    /\ LET d == Decidir(fosforo_presente, potassio_presente, valor_ph, umidade_solo)
       IN  /\ bomba_ativa' = d.deve_ativar_bomba
           /\ pino2' = NivelPino(d.deve_ativar_bomba)
           /\ serial' = Append(serial,
                               Relatorio(fosforo_presente, potassio_presente, valor_ph,
                                         umidade_solo, d.deve_ativar_bomba,
                                         d.motivo_decisao))
    /\ pc' = "exibirDadosCSV"
    /\ UNCHANGED <<leitura_vars, ultima_leitura, contador_medicoes, cenario_atual,
                   millis, log_fisico, memo>>

\* lines 238-251
exibirDadosCSV ==
    /\ pc = "exibirDadosCSV"
    /\ serial' = Append(serial,
                        [tipo |-> "CSV",
                         linha |-> LinhaCSV(contador_medicoes, fosforo_presente,
                                            potassio_presente, valor_ph, umidade_solo,
                                            bomba_ativa)])
    /\ pc' = "avancar"
    /\ UNCHANGED <<leitura_vars, bomba_ativa, ultima_leitura, contador_medicoes,
                   cenario_atual, millis, pino2, log_fisico, memo>>

\* lines 88-92: the end of the cycle
loop_avancar ==
    /\ pc = "avancar"
    /\ cenario_atual' = ProximoCenario(cenario_atual)
    /\ pc' = "loop"
    /\ UNCHANGED <<leitura_vars, bomba_ativa, ultima_leitura, contador_medicoes,
                   millis, pino2, serial, log_fisico, memo>>

Next ==
    \/ setup
    \/ loop
    \/ simularCenario
    \/ lerSensores
    \/ analisarDadosEControlarBomba
    \/ exibirDadosCSV
    \/ loop_avancar

Spec == Init /\ [][Next]_vars

-----------------------------------------------------------------------------
(* The decision policy on arbitrary readings: analisarDadosEControlarBomba() *)
(* is entered with any reading in the globals and either pump state.        *)

Leitura == <<fosforo_presente, potassio_presente, valor_ph, umidade_solo>>

InitAvaliacao ==
    /\ fosforo_presente \in BOOLEAN
    /\ potassio_presente \in BOOLEAN
    /\ valor_ph \in PHS
    /\ umidade_solo \in UMIDADES
    /\ bomba_ativa \in BOOLEAN
    /\ pino2 = NivelPino(bomba_ativa)
    /\ ultima_leitura = 4000
    /\ contador_medicoes = 1
    /\ cenario_atual = 0
    /\ millis = 4000
    /\ pc = "analisarDadosEControlarBomba"
    /\ serial = <<>>
    /\ log_fisico = SemLeitura
    /\ memo = Nenhum

\* the next reading arrives in the globals
NovaLeitura ==
    /\ pc = "exibirDadosCSV"
    /\ fosforo_presente' \in BOOLEAN
    /\ potassio_presente' \in BOOLEAN
    /\ valor_ph' \in PHS
    /\ umidade_solo' \in UMIDADES
    /\ serial' = <<>>
    /\ pc' = "analisarDadosEControlarBomba"
    /\ UNCHANGED <<bomba_ativa, ultima_leitura, contador_medicoes, cenario_atual,
                   millis, pino2, log_fisico, memo>>

NextAvaliacao ==
    \/ analisarDadosEControlarBomba
    \/ NovaLeitura

SpecAvaliacao == InitAvaliacao /\ [][NextAvaliacao]_vars

\* the next reading arrives in the globals; the observer, while it holds
\* nothing, may keep the reading and the decision of the call just made
NovaLeituraObservada ==
    /\ pc = "exibirDadosCSV"
    /\ fosforo_presente' \in BOOLEAN
    /\ potassio_presente' \in BOOLEAN
    /\ valor_ph' \in PHS
    /\ umidade_solo' \in UMIDADES
    /\ memo' \in IF memo = Nenhum
                 THEN {Nenhum, [tipo |-> "memo", leitura |-> Leitura,
                                bomba |-> bomba_ativa,
                                motivo |-> serial[Len(serial)].motivo.codigo]}
                 ELSE {memo}
    /\ serial' = <<>>
    /\ pc' = "analisarDadosEControlarBomba"
    /\ UNCHANGED <<bomba_ativa, ultima_leitura, contador_medicoes, cenario_atual,
                   millis, pino2, log_fisico>>

NextMemoria ==
    \/ analisarDadosEControlarBomba
    \/ NovaLeituraObservada

SpecMemoria == InitAvaliacao /\ [][NextMemoria]_vars

-----------------------------------------------------------------------------
(* Properties *)

\* analisarDadosEControlarBomba() has just returned: the globals hold the
\* reading it evaluated and the last thing printed is its report
Decidida == pc = "exibirDadosCSV"

MotivoAtual == serial[Len(serial)].motivo.codigo

AmbosAusentes == ~fosforo_presente /\ ~potassio_presente
UmSoNutriente == fosforo_presente # potassio_presente
AmbosPresentes == fosforo_presente /\ potassio_presente
PHAcido == valor_ph # NaN /\ valor_ph < 6000
PHAlcalino == valor_ph # NaN /\ valor_ph > 8000
PHNaFaixa == valor_ph # NaN /\ valor_ph >= 6000 /\ valor_ph <= 8000
UmidadeBaixa == umidade_solo # NaN /\ umidade_solo < 30000
UmidadeAlta == umidade_solo # NaN /\ umidade_solo > 70000
UmidadeNaFaixa == umidade_solo # NaN /\ umidade_solo >= 30000 /\ umidade_solo <= 70000

\* C1: whenever both nutrients are absent, the decision is pump on with reason
\* NO_NUTRIENTS_FORCE_IRRIGATION, whatever moisture and pH are.
C1_SemNutrientesForcaIrrigacao ==
    (Decidida /\ AmbosAusentes) =>
        (bomba_ativa /\ MotivoAtual = "NO_NUTRIENTS_FORCE_IRRIGATION")

\* both nutrients absent with moisture above 70 and an acid pH, decided
C1_Witness == Decidida /\ AmbosAusentes /\ UmidadeAlta /\ PHAcido /\ bomba_ativa

\* C2: whenever exactly one nutrient is present, the decision is pump on with
\* reason PARTIAL_NUTRIENT_BALANCING, whatever moisture and pH are, also with
\* the pH out of [6,8].
C2_NutrienteParcialLigaBomba ==
    (Decidida /\ UmSoNutriente) =>
        (bomba_ativa /\ MotivoAtual = "PARTIAL_NUTRIENT_BALANCING")

\* only potassium present, alkaline pH and high moisture, decided
C2_Witness ==
    Decidida /\ ~fosforo_presente /\ potassio_presente /\ PHAlcalino /\ UmidadeAlta
    /\ bomba_ativa

\* C3: with both nutrients present and the pH out of range the decision is
\* pump off with reason PH_TOO_ACIDIC (pH < 6) or PH_TOO_ALKALINE (pH > 8), also
\* when moisture is below 30.
C3_PHForaDaFaixaBloqueia ==
    (Decidida /\ AmbosPresentes /\ (PHAcido \/ PHAlcalino)) =>
        /\ ~bomba_ativa
        /\ MotivoAtual = (IF PHAcido THEN "PH_TOO_ACIDIC" ELSE "PH_TOO_ALKALINE")

\* both nutrients present, moisture below 30 and an acid pH, decided
C3_Witness == Decidida /\ AmbosPresentes /\ UmidadeBaixa /\ PHAcido /\ ~bomba_ativa

\* C4: with both nutrients present, moisture below 30 and the pH in [6,8], both
\* ends included, the decision is pump on with reason MOISTURE_LOW.
C4_UmidadeBaixaLiga ==
    (Decidida /\ AmbosPresentes /\ UmidadeBaixa /\ PHNaFaixa) =>
        (bomba_ativa /\ MotivoAtual = "MOISTURE_LOW")

\* both nutrients present, moisture below 30 and the pH exactly 6.0, decided
C4_Witness ==
    Decidida /\ AmbosPresentes /\ UmidadeBaixa /\ valor_ph = 6000 /\ bomba_ativa

\* C5: with both nutrients present, moisture from 30 to 70 and the pH from 6 to
\* 8, the four boundary values included, the decision is pump off with reason
\* MOISTURE_NORMAL.
C5_UmidadeNormalDesliga ==
    (Decidida /\ AmbosPresentes /\ UmidadeNaFaixa /\ PHNaFaixa) =>
        (~bomba_ativa /\ MotivoAtual = "MOISTURE_NORMAL")

\* both nutrients present, moisture exactly 30.0 and the pH exactly 8.0, decided
C5_Witness ==
    Decidida /\ AmbosPresentes /\ umidade_solo = 30000 /\ valor_ph = 8000
    /\ ~bomba_ativa

\* C6: a call that evaluates the reading of an earlier call takes the decision of
\* that earlier call (pump and reason), whatever the pump state it is entered in.
C6_DecisaoSoDependeDaLeitura ==
    (Decidida /\ memo # Nenhum /\ memo.leitura = Leitura) =>
        (memo.bomba = bomba_ativa /\ memo.motivo = MotivoAtual)

\* a reading of the normal-moisture branch, decided pump off by an earlier call,
\* is about to be evaluated again with the pump left on by the call before
C6_Witness ==
    /\ pc = "analisarDadosEControlarBomba"
    /\ bomba_ativa
    /\ memo # Nenhum
    /\ memo.leitura = Leitura
    /\ memo.motivo = "MOISTURE_NORMAL"
    /\ ~memo.bomba

-----------------------------------------------------------------------------
(* Properties of the cycle *)

\* the decisions of the six demonstration scenarios
PadraoBomba == <<"LIGADA", "LIGADA", "LIGADA", "DESLIGADA", "DESLIGADA", "DESLIGADA">>
PadraoMotivo ==
    <<"NO_NUTRIENTS_FORCE_IRRIGATION", "PARTIAL_NUTRIENT_BALANCING",
      "PARTIAL_NUTRIENT_BALANCING", "PH_TOO_ACIDIC", "PH_TOO_ALKALINE",
      "MOISTURE_NORMAL">>

\* the CSV fields after the cycle index, per demonstration scenario
PadraoCSV ==
    <<"0,0,7.20,45.0,1", "1,0,7.00,25.0,1", "0,1,6.80,75.0,1",
      "1,1,5.50,40.0,0", "1,1,8.50,50.0,0", "1,1,7.00,55.0,0">>

\* scenario evaluated by the k-th cycle
CenarioDoCiclo(k) == ((k - 1) % 6) + 1

\* the steps of one cycle, in order
OrdemDoCiclo ==
    {<<"setup", "loop">>, <<"loop", "simularCenario">>,
     <<"simularCenario", "lerSensores">>,
     <<"lerSensores", "analisarDadosEControlarBomba">>,
     <<"analisarDadosEControlarBomba", "exibirDadosCSV">>,
     <<"exibirDadosCSV", "avancar">>, <<"avancar", "loop">>}

\* number of serial entries once the step at pc is reached in cycle contador_medicoes
EntradasEsperadas ==
    CASE pc \in {"setup", "loop", "avancar"} -> 3 * contador_medicoes
      [] pc = "simularCenario" -> 3 * (contador_medicoes - 1)
      [] pc \in {"lerSensores", "analisarDadosEControlarBomba"} ->
            3 * (contador_medicoes - 1) + 1
      [] pc = "exibirDadosCSV" -> 3 * (contador_medicoes - 1) + 2

\* C7: the steps of a cycle run in the order simularCenario, lerSensores,
\* analisarDadosEControlarBomba, exibirDadosCSV, one cycle at a time; the k-th
\* cycle announces and evaluates scenario ((k-1) mod 6)+1, and its decision is
\* the k-th term of the repeating pattern on, on, on, off, off, off with the
\* reasons of the six scenarios.
C7_CiclosSeguemOsCenarios ==
    /\ [](/\ Len(serial) = EntradasEsperadas
          /\ \A i \in 1..Len(serial) :
                LET k == ((i - 1) \div 3) + 1
                IN  CASE i % 3 = 1 ->
                           /\ serial[i].tipo = "CENARIO"
                           /\ serial[i].n = CenarioDoCiclo(k)
                      [] i % 3 = 2 ->
                           /\ serial[i].tipo = "ANALISE"
                           /\ serial[i].bomba = PadraoBomba[CenarioDoCiclo(k)]
                           /\ serial[i].motivo.codigo = PadraoMotivo[CenarioDoCiclo(k)]
                      [] i % 3 = 0 -> serial[i].tipo = "CSV")
    /\ [][pc' # pc => <<pc, pc'>> \in OrdemDoCiclo]_vars

\* the seventh cycle has decided: scenario 1 again, pump on
C7_Witness ==
    /\ contador_medicoes = 7
    /\ Decidida
    /\ serial[Len(serial)].motivo.codigo = "NO_NUTRIENTS_FORCE_IRRIGATION"
    /\ bomba_ativa

\* number of CSV records printed so far
NumRegistros == Cardinality({i \in 1..Len(serial) : serial[i].tipo = "CSV"})

\* C8: when a cycle ends exactly one more record has been printed, after the
\* report of that cycle's decision; the k-th record carries k, then the flags,
\* pH and moisture evaluated in cycle k and the pump decision of cycle k; the
\* first record is 1,0,0,7.20,45.0,1.
C8_UmRegistroPorCiclo ==
    /\ NumRegistros = IF pc \in {"setup", "loop", "avancar"}
                      THEN contador_medicoes
                      ELSE contador_medicoes - 1
    /\ \A k \in 1..NumRegistros :
          /\ 3 * k <= Len(serial)
          /\ serial[3 * k].tipo = "CSV"
          /\ serial[3 * k].linha = NatToStr(k) \o "," \o PadraoCSV[CenarioDoCiclo(k)]
          /\ serial[3 * k - 1].tipo = "ANALISE"
          /\ serial[3 * k - 1].bomba = PadraoBomba[CenarioDoCiclo(k)]
    /\ NumRegistros >= 1 => serial[3].linha = "1,0,0,7.20,45.0,1"

\* eight records printed, the eighth being 8,1,0,7.00,25.0,1
C8_Witness ==
    /\ NumRegistros = 8
    /\ serial[Len(serial)].tipo = "CSV"
    /\ serial[Len(serial)].linha = "8,1,0,7.00,25.0,1"

\* C9: lerSensores() always returns, to the analysis, and leaves the four
\* reading variables, bomba_ativa, the pin and the records printed so far
\* unchanged, whatever the ADC readings are and whether or not the DHT22
\* humidity is NaN.
C9_LerSensoresNaoAlteraLeitura ==
    [][pc = "lerSensores" =>
          /\ pc' = "analisarDadosEControlarBomba"
          /\ UNCHANGED <<leitura_vars, bomba_ativa, pino2, serial, contador_medicoes,
                         cenario_atual>>]_vars

\* a cycle whose DHT22 read failed has completed and printed its record
C9_Witness ==
    /\ pc = "loop"
    /\ contador_medicoes >= 1
    /\ log_fisico # SemLeitura
    /\ log_fisico.dht = ""
    /\ NumRegistros = contador_medicoes

\* no decision has been taken since setup()
SemDecisao == \A i \in 1..Len(serial) : serial[i].tipo # "ANALISE"

\* C10: after setup() pin 2 is HIGH exactly when bomba_ativa is true, and both
\* are off until the first decision; the pin and bomba_ativa change only in
\* analisarDadosEControlarBomba(), to the decision it reports; an iteration of
\* loop() that finds fewer than 3000 ms elapsed since the previous cycle changes
\* none of pin, bomba_ativa, contador_medicoes and cenario_atual.
C10_PinoSegueBomba ==
    /\ [](pc # "setup" =>
             /\ (pino2 = HIGH) <=> bomba_ativa
             /\ SemDecisao => (pino2 = LOW /\ ~bomba_ativa))
    /\ [][/\ (pc # "setup" /\ (pino2' # pino2 \/ bomba_ativa' # bomba_ativa)) =>
                /\ pc = "analisarDadosEControlarBomba"
                /\ bomba_ativa' = (serial'[Len(serial')].bomba = "LIGADA")
          /\ (pc = "loop" /\ millis' - ultima_leitura < INTERVALO_LEITURA) =>
                UNCHANGED <<pino2, bomba_ativa, contador_medicoes, cenario_atual, pc>>
         ]_vars

\* the pump is on and an iteration of loop() has found less than 3000 ms elapsed
C10_Witness ==
    /\ pc = "loop"
    /\ bomba_ativa
    /\ pino2 = HIGH
    /\ millis > ultima_leitura
    /\ millis - ultima_leitura < INTERVALO_LEITURA

====
